---- MODULE Spec2Model ----
(***************************************************************************)
(* The snake game of arduino-snake-game.ino as a state machine.            *)
(*                                                                         *)
(* The state is the sketch's global objects (matrix, snake, food, direct,  *)
(* the buzzer pin), the locals of loop() that live across its steps, and   *)
(* the position of loop() (pc).  One pass of loop() is one tick; its steps *)
(* are taken in the order of the code, each step enabled at one pc only.   *)
(*                                                                         *)
(* The grid and the maximal length are scaled down from the sketch's 8x8   *)
(* and 12 so that the reachable states can be enumerated; every other      *)
(* parameter keeps the sketch's value.                                     *)
(***************************************************************************)
EXTENDS Integers, Sequences, FiniteSets

\* ---------------------------------------------------------------- bounds
\* Height and width of the LED matrix (8 and 8 in the sketch) and the maximal
\* snake length (12 in the sketch), scaled down.
ROWS == 3
COLUMNS == 3
MAX_SNAKE_LENGTH == 5

\* ------------------------------------------------------ program constants
INIT_SNAKE_LENGTH == 2
FOOD_POINTS == 2
REFILL_IMMEDIATELY == TRUE
JOYSTICK_THRESHOLD == 50
BLINK_FREQUENCY == 2
NUM_HALF_BLINKS == 2 * BLINK_FREQUENCY

\* enum Direction, in declaration order.
LEFT == 0
UP == 1
RIGHT == 2
DOWN == 3
Directions == {LEFT, UP, RIGHT, DOWN}

\* Value of a local of loop() outside its scope.
NoDirection == DOWN + 1

\* analogRead() of a joystick axis: 0..1023, about 512 at rest.  The samples
\* cover rest, both sides of the threshold and both full deflections.
AnalogCenter == 512
AnalogSamples == {0, 461, 512, 562, 563, 1023}

\* ------------------------------------------------------------- arithmetic
\* The % of C on int: the quotient truncates towards zero, so the remainder
\* has the sign of the dividend.
CMod(a, b) == IF a >= 0 THEN a % b ELSE -((-a) % b)

Abs(a) == IF a >= 0 THEN a ELSE -a

\* struct point: operator+ / operator+=.
PointAdd(p, q) == <<p[1] + q[1], p[2] + q[2]>>

makeDirectionVector(dir) ==
    CASE dir = LEFT  -> <<-1, 0>>
      [] dir = UP    -> <<0, -1>>
      [] dir = RIGHT -> <<1, 0>>
      [] dir = DOWN  -> <<0, 1>>

\* The cells of the grid.
Cells == (0..(COLUMNS - 1)) \X (0..(ROWS - 1))

\* ----------------------------------------------------------------- Matrix
\* m_display: one int per row; the model keeps the set of bits that are 1
\* among the bits the LED row shows (bit m_rows-1-x is the LED of column x).
RowBits == 0..(ROWS - 1)

\* Matrix::clear(): every row 0.
clear == [r \in 0..(ROWS - 1) |-> {}]

\* 1 << (m_rows - p.x - 1).  A shift count outside 0..14 is undefined on a
\* 16 bit int: ub is the set of low bits the build then produces.
pixelMask(p, ub) ==
    LET shift == ROWS - p[1] - 1
    IN  IF shift >= 0 /\ shift <= 14 THEN {shift} \cap RowBits ELSE ub

\* What an undefined shift by -1 can leave in the low bits of the mask:
\* nothing (all bits shifted out, or only high bits set), or bit 0 (a shift
\* loop that runs zero times).
UndefinedShiftMasks == {{}, {0}}

\* Matrix::setPixel().  A row index outside the buffer makes the write land
\* outside m_display: the rows of the buffer keep their value.
setPixel(d, p, value, ub) ==
    IF p[2] \in DOMAIN d
    THEN [d EXCEPT ![p[2]] = IF value THEN @ \cup pixelMask(p, ub)
                                       ELSE @ \ pixelMask(p, ub)]
    ELSE d

\* ------------------------------------------------------------------ Snake
\* m_snake[0 .. m_currentLength-1] as a sequence: index 1 is the tail, the
\* last index the head.  Slots from m_currentLength on are written by
\* extend() before they are read as cells, so they are not part of the state.
getHead(s) == s[Len(s)]
getTail(s) == s[1]
getLength(s) == Len(s)

\* Snake::Snake(): initLength cells from start, each one step further in
\* direction dir.  No wrap is applied here.
SnakeCells(initLength, start, dir) ==
    [i \in 1..initLength |->
        <<start[1] + (i - 1) * makeDirectionVector(dir)[1],
          start[2] + (i - 1) * makeDirectionVector(dir)[2]>>]

\* The setPixel(cell, true) calls of a constructor or of placeFood, in order
\* of the cells.
RECURSIVE drawCells(_, _, _)
drawCells(d, cells, ub) ==
    IF cells = <<>> THEN d
    ELSE drawCells(setPixel(d, Head(cells), TRUE, ub), Tail(cells), ub)

\* Mutant of extendHead: the grid size is not added before the remainder.
extendHead_NoBias(head, dir) ==
    LET moved == PointAdd(head, makeDirectionVector(dir))
    IN  <<CMod(moved[1], COLUMNS), CMod(moved[2], ROWS)>>

\* The new head of Snake::extend().
extendHead(head, dir) ==
    LET moved  == PointAdd(head, makeDirectionVector(dir))
        biased == PointAdd(moved, <<COLUMNS, ROWS>>)
    IN  <<CMod(biased[1], COLUMNS), CMod(biased[2], ROWS)>>

\* Snake::extend(): the cells after the call.
extend(s, dir) == Append(s, extendHead(getHead(s), dir))

\* A cut that drops the cell at the other end of the array.
cut_DropHead(s) == SubSeq(s, 1, Len(s) - 1)

\* Snake::cut(): the cells after the call.
cut(s) == Tail(s)

\* Snake::isOccupied().
isOccupied(s, p) == \E i \in 1..Len(s) : p = s[i]

\* Mutant of checkSelfCollision: the scan starts after the tail.
checkSelfCollision_SkipTail(s) == \E i \in 2..(Len(s) - 1) : s[i] = getHead(s)

\* Mutant of checkSelfCollision: the scan includes the head itself.
checkSelfCollision_IncludesHead(s) == \E i \in 1..Len(s) : s[i] = getHead(s)

\* Snake::checkSelfCollision().
checkSelfCollision(s) == \E i \in 1..(Len(s) - 1) : s[i] = getHead(s)

\* ------------------------------------------------------------------- Food
\* m_foodPoints[0 .. m_foodCount-1] as a sequence.
getCount(f) == Len(f)

\* Food::isOccupied().
foodOccupied(f, p) == \E i \in 1..Len(f) : f[i] = p

\* Mutant of placeFood: the sample is not checked against the snake.
RECURSIVE placeFood_IgnoreSnake(_, _, _)
placeFood_IgnoreSnake(f, s, numToPlace) ==
    UNION { IF numToPlace - 1 <= 0
            THEN {Append(f, p)}
            ELSE placeFood_IgnoreSnake(Append(f, p), s, numToPlace - 1)
          : p \in {q \in Cells : ~foodOccupied(f, q)} }

\* Food::placeFood(): the food arrays the call can end with.  Each accepted
\* sample is a cell occupied by neither the snake nor food; rejected samples
\* change nothing.  The loop leaves after an acceptance that brings numToPlace
\* to 0 or below; with no free cell left it never leaves (no result).
RECURSIVE placeFood(_, _, _)
placeFood(f, s, numToPlace) ==
    UNION { IF numToPlace - 1 <= 0
            THEN {Append(f, p)}
            ELSE placeFood(Append(f, p), s, numToPlace - 1)
          : p \in {q \in Cells : ~isOccupied(s, q) /\ ~foodOccupied(f, q)} }

\* Index of the first food piece on p, 0 if there is none.
foodIndex(f, p) ==
    IF foodOccupied(f, p)
    THEN CHOOSE i \in 1..Len(f) : f[i] = p /\ \A j \in 1..(i - 1) : f[j] # p
    ELSE 0

\* Food::tryEat(): the return value.
tryEat(f, p) == foodIndex(f, p) # 0

\* Mutant of afterEat: m_foodCount is not decremented.
afterEat_NoShrink(f, p) ==
    IF foodOccupied(f, p)
    THEN [f EXCEPT ![foodIndex(f, p)] = f[Len(f)]]
    ELSE f

\* Food::tryEat(): the food array after the call (the piece found is
\* overwritten by the last one and the count shrinks by one).
afterEat(f, p) ==
    IF tryEat(f, p)
    THEN SubSeq([f EXCEPT ![foodIndex(f, p)] = f[Len(f)]], 1, Len(f) - 1)
    ELSE f

\* ------------------------------------------------------------ game functions
\* The start point of the snake's tail in initGame().
StartPoint == <<COLUMNS - 1, 0>>

\* initGame(): the cells of the new Snake, built along the global direct.
initSnake(dir) == SnakeCells(INIT_SNAKE_LENGTH, StartPoint, dir)

\* initGame(): the buffer of the new Matrix after the Snake constructor drew
\* its cells on it.
initCanvas(dir, ub) == drawCells(clear, initSnake(dir), ub)

\* readDirection(): whether the deviation (ax, ay) passes the threshold.
Deflected(ax, ay) ==
    LET xPin == ax - AnalogCenter
        yPin == ay - AnalogCenter
        inputLength == xPin * xPin + yPin * yPin
    IN  inputLength > JOYSTICK_THRESHOLD * JOYSTICK_THRESHOLD

\* readDirection(): ax and ay are the two analogRead() values.
readDirection(defaultDirection, ax, ay) ==
    LET xPin == ax - AnalogCenter
        yPin == ay - AnalogCenter
    IN  IF Deflected(ax, ay)
        THEN IF Abs(xPin) > Abs(yPin)
             THEN (IF xPin > 0 THEN LEFT ELSE RIGHT)
             ELSE (IF yPin > 0 THEN UP ELSE DOWN)
        ELSE defaultDirection

\* What readDirection(defaultDirection) can return over the joystick
\* positions, each with whether the joystick was beyond the threshold.
Readings(defaultDirection) ==
    { <<readDirection(defaultDirection, ax, ay), Deflected(ax, ay)>> :
        ax \in AnalogSamples, ay \in AnalogSamples }

\* Mutant of steer: the remainder is compared with 1, which misses -1.
steer_PositiveOnly(dir, newDir) ==
    IF CMod(newDir - dir, 2) = 1 THEN newDir ELSE dir

\* loop(): the heading after `if ((newDirect - direct) % 2) direct = newDirect;`.
steer(dir, newDir) == IF CMod(newDir - dir, 2) # 0 THEN newDir ELSE dir

\* Mutant of winCondition: the length is compared with the array capacity + 1.
winCondition_Late(s) == getLength(s) = MAX_SNAKE_LENGTH + 2

\* loop(): the win condition.
winCondition(s) == getLength(s) = MAX_SNAKE_LENGTH

\* loop(): where the terminal checks send the tick.
terminalCheck(s) ==
    IF checkSelfCollision(s) THEN "lose"
    ELSE IF winCondition(s) THEN "win"
    ELSE "blink"

\* A refill whose Immediate branch asks for the whole batch.
refillCount_Batch(f, immediately) ==
    IF immediately
    THEN (IF getCount(f) < FOOD_POINTS THEN FOOD_POINTS ELSE 0)
    ELSE (IF getCount(f) = 0 THEN FOOD_POINTS ELSE 0)

\* A refill that places a batch in every tick, whatever the count.
refillCount_EveryTick(f, immediately) == FOOD_POINTS

\* A refill whose LazyBatch branch tests for a short count, not for zero.
refillCount_LazyShort(f, immediately) ==
    IF immediately
    THEN (IF getCount(f) < FOOD_POINTS THEN FOOD_POINTS - getCount(f) ELSE 0)
    ELSE (IF getCount(f) < FOOD_POINTS THEN FOOD_POINTS ELSE 0)

\* loop(): the numToPlace of the refill step, 0 when placeFood is not called.
refillCount(f, immediately) ==
    IF immediately
    THEN (IF getCount(f) < FOOD_POINTS THEN FOOD_POINTS - getCount(f) ELSE 0)
    ELSE (IF getCount(f) = 0 THEN FOOD_POINTS ELSE 0)

\* Matrix::flush(): the LED of pixel p when buffer d is flushed.
pixelOn(d, p) == p[2] \in DOMAIN d /\ (ROWS - p[1] - 1) \in d[p[2]]

\* A half-blink loop whose isHeadVisible starts as true.
RECURSIVE halfBlinks_StartOn(_, _, _, _, _)
halfBlinks_StartOn(d, head, k, visible, written) ==
    IF k < NUM_HALF_BLINKS
    THEN LET frame == setPixel(d, head, ~visible, {})
         IN  halfBlinks_StartOn(frame, head, k + 1, ~visible,
                 Append(written, [value |-> ~visible,
                                  shown |-> pixelOn(frame, head)]))
    ELSE [buffer |-> d, written |-> written]

\* loop(): the half-blink loop on buffer d.  The result is the buffer after
\* the last pass and, for every pass in order, the value written to the head
\* pixel and the head LED of the frame flushed at the end of the pass.
RECURSIVE halfBlinks(_, _, _, _, _)
halfBlinks(d, head, k, visible, written) ==
    IF k < NUM_HALF_BLINKS
    THEN LET frame == setPixel(d, head, visible, {})
         IN  halfBlinks(frame, head, k + 1, ~visible,
                 Append(written, [value |-> visible,
                                  shown |-> pixelOn(frame, head)]))
    ELSE [buffer |-> d, written |-> written]

\* The steps of the terminal sequences, in the order of the code.
\* playWin(): the melody is WinBeeps times buzzer high, buzzer low.
WinBeeps == 10

RECURSIVE beeps(_)
beeps(n) == IF n = 0 THEN <<>> ELSE <<"buzzerHigh", "buzzerLow">> \o beeps(n - 1)

\* playLose() with initGame() called first.
playLose_ResetFirst == <<"initGame", "buzzerHigh", "buzzerLow", "curtain">>

\* playLose(): one pulse, curtainAnimation(), initGame().
playLose == <<"buzzerHigh", "buzzerLow", "curtain", "initGame">>

\* A playWin() without its melody.
playWin_Silent == <<"curtain", "initGame">>

\* playWin(): the melody, curtainAnimation(), initGame().
playWin == beeps(WinBeeps) \o <<"curtain", "initGame">>

\* The level of BUZZER_PIN after the digitalWrite calls among steps.
RECURSIVE buzzerAfter(_, _)
buzzerAfter(level, steps) ==
    IF steps = <<>> THEN level
    ELSE buzzerAfter(IF Head(steps) = "buzzerHigh" THEN TRUE
                     ELSE IF Head(steps) = "buzzerLow" THEN FALSE
                     ELSE level,
                     Tail(steps))

\* ------------------------------------------------------------------ state
VARIABLES
    direct,         \* global Direction direct
    snake,          \* snake->m_snake[0 .. m_currentLength-1]
    food,           \* food->m_foodPoints[0 .. m_foodCount-1]
    m_display,      \* matrix->m_display
    leds,           \* what the LED matrix shows (last flush or clearDisplay)
    buzzer,         \* level of BUZZER_PIN
    refill,         \* REFILL_IMMEDIATELY of the build
    pc,             \* position in loop()
    newDirect,      \* local of loop(), NoDirection when it is not live
    deflected,      \* history: the joystick was beyond the threshold at the read
    hitIdx,         \* history: index of the cell the new head landed on, 0 if none
    ate,            \* history: tryEat() returned true in this tick
    start,          \* history: length, food count and tail when the tick began,
                    \* kept until the terminal checks
    blinked,        \* history: the passes of this tick's blink
    played,         \* history: steps of this tick's terminal sequence
    fresh           \* history: no tick has begun since setup() or the last reset

vars == <<direct, snake, food, m_display, leds, buzzer, refill, pc, newDirect,
          deflected, hitIdx, ate, start, blinked, played, fresh>>

NoStart == [len |-> 0, count |-> 0, tail |-> <<0, 0>>]

\* setup(): initGame() with direct = DOWN, then placeFood for FOOD_POINTS
\* pieces.  The Matrix constructor clears the LEDs; nothing is flushed yet.
InitWith(immediately) ==
    /\ direct = DOWN
    /\ snake = initSnake(DOWN)
    /\ food \in placeFood(<<>>, snake, FOOD_POINTS)
    /\ m_display = drawCells(initCanvas(DOWN, {}), food, {})
    /\ leds = clear
    /\ buzzer = FALSE
    /\ refill = immediately
    /\ pc = "loop"
    /\ newDirect = NoDirection
    /\ deflected = FALSE
    /\ hitIdx = 0
    /\ ate = FALSE
    /\ start = NoStart
    /\ blinked = <<>>
    /\ played = <<>>
    /\ fresh = TRUE

Init == InitWith(REFILL_IMMEDIATELY)

\* The history of a tick when loop() returns.
EndOfLoop ==
    /\ pc' = "loop"
    /\ hitIdx' = 0
    /\ ate' = FALSE

\* loop(): newDirect = readDirection(direct), the turn rule, then
\* snake->extend(direct).
Move ==
    /\ pc = "loop"
    /\ \E r \in Readings(direct) :
          /\ newDirect' = r[1]
          /\ deflected' = r[2]
    /\ direct' = steer(direct, newDirect')
    /\ snake' = extend(snake, direct')
    /\ m_display' = setPixel(m_display, getHead(snake'), TRUE, {})
    /\ hitIdx' = IF isOccupied(snake, getHead(snake'))
                 THEN CHOOSE k \in 1..Len(snake) : snake[k] = getHead(snake')
                 ELSE 0
    /\ start' = [len |-> getLength(snake), count |-> getCount(food),
                 tail |-> getTail(snake)]
    /\ fresh' = FALSE
    /\ blinked' = <<>>
    /\ played' = <<>>
    /\ pc' = "eat"
    /\ UNCHANGED <<food, leds, buzzer, refill, ate>>

\* loop(): if (food->tryEat(head)) beep, else snake->cut().  newDirect is not
\* read again in this pass of loop().
EatOrCut ==
    /\ pc = "eat"
    /\ IF tryEat(food, getHead(snake))
       THEN /\ food' = afterEat(food, getHead(snake))
            /\ buzzer' = TRUE
            /\ ate' = TRUE
            /\ UNCHANGED <<snake, m_display>>
       ELSE /\ m_display' \in { setPixel(m_display, getTail(snake), FALSE, ub) :
                                 ub \in UndefinedShiftMasks }
            /\ snake' = cut(snake)
            /\ ate' = FALSE
            /\ UNCHANGED <<food, buzzer>>
    /\ newDirect' = NoDirection
    /\ deflected' = FALSE
    /\ pc' = "refill"
    /\ UNCHANGED <<direct, leds, refill, hitIdx, start, blinked, played, fresh>>

\* loop(): the refill step, then matrix->flush().
RefillAndFlush ==
    /\ pc = "refill"
    /\ IF refillCount(food, refill) > 0
       THEN /\ food' \in placeFood(food, snake, refillCount(food, refill))
            /\ m_display' = drawCells(m_display,
                                SubSeq(food', Len(food) + 1, Len(food')), {})
       ELSE UNCHANGED <<food, m_display>>
    /\ leds' = m_display'
    /\ pc' = "check"
    /\ UNCHANGED <<direct, snake, buzzer, refill, newDirect, deflected, hitIdx,
                   ate, start, blinked, played, fresh>>

\* loop(): the lose and win conditions.
TerminalCheck ==
    /\ pc = "check"
    /\ pc' = terminalCheck(snake)
    /\ start' = NoStart
    /\ UNCHANGED <<direct, snake, food, m_display, leds, buzzer, refill,
                   newDirect, deflected, hitIdx, ate, blinked, played, fresh>>

\* curtainAnimation() and initGame(): the animation ends with the last row
\* lit, then the old objects are deleted, the new Matrix clears the LEDs and
\* the new Snake is built along the current direct; the new Food is empty.
Reset ==
    /\ m_display' \in { initCanvas(direct, ub) : ub \in UndefinedShiftMasks }
    /\ leds' = clear
    /\ snake' = initSnake(direct)
    /\ food' = <<>>
    /\ fresh' = TRUE

\* playLose(), then loop() returns.  The pulse on the buzzer ends low.
PlayLose ==
    /\ pc = "lose"
    /\ played' = playLose
    /\ buzzer' = buzzerAfter(buzzer, playLose)
    /\ Reset
    /\ EndOfLoop
    /\ UNCHANGED <<direct, refill, newDirect, deflected, start, blinked>>

\* playWin(), then loop() returns.  The melody ends with the buzzer low.
PlayWin ==
    /\ pc = "win"
    /\ played' = playWin
    /\ buzzer' = buzzerAfter(buzzer, playWin)
    /\ Reset
    /\ EndOfLoop
    /\ UNCHANGED <<direct, refill, newDirect, deflected, start, blinked>>

\* loop(): the half-blink loop, each pass flushed, then
\* digitalWrite(BUZZER_PIN, LOW); loop() returns.
Blink ==
    /\ pc = "blink"
    /\ LET b == halfBlinks(m_display, getHead(snake), 0, FALSE, <<>>)
       IN  /\ m_display' = b.buffer
           /\ leds' = b.buffer
           /\ blinked' = b.written
    /\ buzzer' = FALSE
    /\ EndOfLoop
    /\ UNCHANGED <<direct, snake, food, refill, newDirect, deflected, start,
                   played, fresh>>

Next ==
    \/ Move
    \/ EatOrCut
    \/ RefillAndFlush
    \/ TerminalCheck
    \/ PlayLose
    \/ PlayWin
    \/ Blink

Spec == Init /\ [][Next]_vars

\* loop() is called again and again and every step of it ends: the delays
\* are finite and, with a free cell on the grid, so is the sampling of
\* placeFood.
FairSpec == Spec /\ WF_vars(Next)

\* The sketch built with REFILL_IMMEDIATELY = false.
InitLazy == InitWith(FALSE)
SpecLazy == InitLazy /\ [][Next]_vars

\* Snake::checkSelfCollision() on any array of cells: the snake is any
\* sequence of 1 to InjectLength grid cells, contiguous or not, with or
\* without repeated cells, and loop() is at its lose test.
InjectLength == INIT_SNAKE_LENGTH + 2

InitInject ==
    /\ snake \in UNION {[1..n -> Cells] : n \in 1..InjectLength}
    /\ pc = "check"
    /\ direct = DOWN
    /\ food = <<>>
    /\ m_display = clear
    /\ leds = clear
    /\ buzzer = FALSE
    /\ refill = REFILL_IMMEDIATELY
    /\ newDirect = NoDirection
    /\ deflected = FALSE
    /\ hitIdx = 0
    /\ ate = FALSE
    /\ start = NoStart
    /\ blinked = <<>>
    /\ played = <<>>
    /\ fresh = FALSE

SpecInject == InitInject /\ [][TerminalCheck]_vars

\* ----------------------------------------------------------------- claims
\* A point inside the grid.
InGrid(p) == p[1] \in 0..(COLUMNS - 1) /\ p[2] \in 0..(ROWS - 1)

\* Positions of loop() after the extend of a tick and before its terminal
\* checks have been taken.
MidMove == {"eat", "refill", "check"}

\* Positions of loop() right after the terminal checks.
Checked == {"lose", "win", "blink"}

\* C1: the snake length is always within [initLength, maxLength+1], so extend
\* never writes past the maxLength+1 cells of the array, and the length is
\* maxLength+1 at most between extend and the terminal checks of a tick.
C1_LengthBound ==
    /\ Len(snake) >= INIT_SNAKE_LENGTH
    /\ Len(snake) <= MAX_SNAKE_LENGTH + 1
    /\ pc \notin MidMove => Len(snake) <= MAX_SNAKE_LENGTH

\* C1 witness: extend has just written the longest snake a game reaches.
C1_Witness == pc = "eat" /\ Len(snake) = MAX_SNAKE_LENGTH

\* C2: after every placeFood call and at every tick boundary the food cells
\* are pairwise distinct and none of them is a snake cell.  (Between extend
\* and tryEat the head may stand on the piece it is about to eat.)
C2_FoodExclusive ==
    pc # "eat" =>
        /\ \A a, b \in 1..Len(food) : a # b => food[a] # food[b]
        /\ \A a \in 1..Len(food), k \in 1..Len(snake) : food[a] # snake[k]

\* C2 witness: a piece was eaten and placeFood has refilled next to a grown
\* snake.
C2_Witness ==
    pc = "check" /\ ate /\ Len(food) = FOOD_POINTS /\ Len(snake) > INIT_SNAKE_LENGTH

\* C3: every snake cell lies inside the grid, also right after a reset.
C3_SnakeInGrid == \A k \in 1..Len(snake) : InGrid(snake[k])

\* One coordinate after one step on a ring of n cells.
WrapStep(v, dv, n) ==
    IF v + dv = n THEN 0 ELSE IF v + dv = -1 THEN n - 1 ELSE v + dv

\* C4: from an in-range head, extend appends the head moved by one cell in the
\* heading, wrapped from the last column or row to the first and from the
\* first to the last, with no negative coordinate.
C4_ToroidalWrap ==
    (pc = "eat" /\ InGrid(snake[Len(snake) - 1])) =>
        LET old == snake[Len(snake) - 1]
            new == snake[Len(snake)]
            v   == makeDirectionVector(direct)
        IN  /\ new = <<WrapStep(old[1], v[1], COLUMNS), WrapStep(old[2], v[2], ROWS)>>
            /\ InGrid(new)
            /\ (direct = RIGHT /\ old[1] = COLUMNS - 1) => new = <<0, old[2]>>
            /\ (direct = LEFT /\ old[1] = 0) => new = <<COLUMNS - 1, old[2]>>
            /\ (direct = DOWN /\ old[2] = ROWS - 1) => new = <<old[1], 0>>
            /\ (direct = UP /\ old[2] = 0) => new = <<old[1], ROWS - 1>>

\* C4 witness: extend has wrapped the head from the first column to the last.
C4_Witness ==
    /\ pc = "eat"
    /\ direct = LEFT
    /\ snake[Len(snake) - 1][1] = 0
    /\ snake[Len(snake)][1] = COLUMNS - 1

\* Two directions a quarter turn apart, and the reverse of a direction, by
\* their cyclic index.
Perpendicular(a, b) == ((a - b) % 4) \in {1, 3}
Opposite(d) == (d + 2) % 4

\* C5: in every tick the heading becomes the requested direction exactly when
\* the joystick is deflected towards a direction perpendicular to the heading;
\* a request for the same or the opposite direction, or a joystick at rest,
\* leaves the heading, and no step ever reverses the heading.
C5_TurnRule ==
    [][ /\ direct' # Opposite(direct)
        /\ (pc = "loop" /\ pc' = "eat") =>
              direct' = IF deflected' /\ Perpendicular(newDirect', direct)
                        THEN newDirect'
                        ELSE direct ]_vars

\* C5 witness: the joystick asked for the reverse of the heading and the snake
\* kept its heading.
C5_Witness ==
    pc = "eat" /\ deflected /\ newDirect = Opposite(direct) /\ direct = DOWN

\* C6 as stated: over one tick whose new head lands on food the length grows
\* by 1, the food count drops by 1 and the tail stays; read at the flush that
\* commits the tick, after which a tick changes neither snake nor food unless
\* it ends the game.
C6_Original ==
    (pc = "check" /\ ate) =>
        /\ Len(snake) = start.len + 1
        /\ Len(food) = start.count - 1
        /\ getTail(snake) = start.tail

\* C6 amended: when the new head lands on food, the eat step grows the snake
\* by 1, takes 1 from the food count and keeps the tail; the refill step of
\* the same tick (Immediate strategy) then brings the count back to the
\* configured count, so at the flush the count is what it was when the tick
\* began.
C6_EatStep ==
    /\ (pc = "refill" /\ ate) =>
          /\ Len(snake) = start.len + 1
          /\ Len(food) = start.count - 1
          /\ getTail(snake) = start.tail
    /\ (pc = "check" /\ ate) =>
          /\ Len(snake) = start.len + 1
          /\ Len(food) = FOOD_POINTS
          /\ Len(food) = start.count
          /\ getTail(snake) = start.tail

\* C6 witness: the head has just eaten a piece.
C6_Witness == pc = "refill" /\ ate /\ buzzer

\* C7 as stated: a new head that lands on any cell the snake occupied before
\* the extend, the tail included, makes the tick end in Lost.
C7_Original == (pc \in Checked /\ hitIdx >= 1) => pc = "lose"

\* C7 amended: a new head that lands on a cell the snake occupied before the
\* extend other than the tail makes the tick end in Lost; a new head that
\* lands on the tail cell does not, because the tail is cut before the check:
\* the tick stays Running.  A tick ends in Lost in no other case.
C7_LoseOnBody ==
    pc \in Checked =>
        /\ hitIdx >= 2 => pc = "lose"
        /\ hitIdx = 1 => pc = "blink"
        /\ pc = "lose" => hitIdx >= 2

\* C7 witness: the head ran into the body and the tick is in Lost.
C7_Witness == pc = "lose" /\ hitIdx >= 2 /\ ~ate

\* The head stands on another cell of the snake.
HeadOnBody(s) == s[Len(s)] \in {s[k] : k \in 1..(Len(s) - 1)}

\* C8: the terminal checks take one transition: Lost when the head is on a
\* body cell, otherwise Won when the length equals maxLength, otherwise the
\* game stays Running; Won is never taken with a self-collision.
C8_TerminalOrder ==
    /\ pc = "lose" => HeadOnBody(snake)
    /\ pc = "win" => (~HeadOnBody(snake) /\ Len(snake) = MAX_SNAKE_LENGTH)
    /\ pc = "blink" => (~HeadOnBody(snake) /\ Len(snake) # MAX_SNAKE_LENGTH)

\* C8 witness: a tick reached maxLength without collision and is in Won.
C8_Witness == pc = "win" /\ Len(snake) = MAX_SNAKE_LENGTH /\ ate

\* C9: after every run of the reset routine the snake is initLength cells from
\* (columns-1, 0) downwards and the heading is DOWN.
C9_ResetLayout ==
    fresh =>
        /\ snake = [k \in 1..INIT_SNAKE_LENGTH |-> <<COLUMNS - 1, k - 1>>]
        /\ direct = DOWN

\* C10: whenever Running is entered through the reset routine the food set
\* already holds the configured count before the first tick begins.
C10_FoodAtReset == fresh => Len(food) = FOOD_POINTS

\* The steps of a terminal sequence are the feedback (pulses times buzzer
\* high, buzzer low), then the sweep, then the reset routine as the last one.
FeedbackSweepReset(steps, pulses) ==
    /\ Len(steps) = 2 * pulses + 2
    /\ \A k \in 1..(2 * pulses) :
           steps[k] = IF k % 2 = 1 THEN "buzzerHigh" ELSE "buzzerLow"
    /\ steps[2 * pulses + 1] = "curtain"
    /\ steps[2 * pulses + 2] = "initGame"

\* The step out of Lost or Won plays the feedback of that state (one pulse
\* for Lost, the melody for Won), the sweep and the reset routine, blinks no
\* head and ends the tick on a reset snake.
TerminalStep ==
    pc \in {"lose", "win"} =>
        /\ FeedbackSweepReset(played', IF pc = "lose" THEN 1 ELSE WinBeeps)
        /\ blinked' = <<>>
        /\ pc' = "loop"
        /\ fresh'
        /\ Len(snake') = INIT_SNAKE_LENGTH

\* C11: Lost and Won are transient: a tick that went to Lost or Won plays its
\* own feedback, then the sweep, then the reset routine, in that order,
\* without a head blink, and the game is Running again; no execution stays in
\* Lost or Won.
C11_TerminalTransient ==
    /\ [][TerminalStep]_vars
    /\ (pc \in {"lose", "win"}) ~> (pc = "loop" /\ fresh)

\* C11 witness: a terminal sequence was played and the game is Running again.
C11_Witness == pc = "loop" /\ fresh /\ played # <<>> /\ blinked = <<>>

\* The refill step under the Immediate strategy: placeFood adds cells exactly
\* when the count is short of FOOD_POINTS, and then as many as are missing,
\* behind the pieces already there.
ImmediateRefillStep ==
    pc = "refill" =>
        /\ (food' # food) <=> (Len(food) < FOOD_POINTS)
        /\ Len(food') - Len(food) = FOOD_POINTS - Len(food)
        /\ Len(food') - Len(food) >= 1 \/ food' = food
        /\ SubSeq(food', 1, Len(food)) = food

\* C12: under the Immediate strategy the food count is FOOD_POINTS after the
\* refill step of every tick; placeFood is called exactly when the count after
\* the eat step is below FOOD_POINTS and then for the exact shortfall; the
\* count never exceeds FOOD_POINTS.
C12_ImmediateRefill ==
    /\ [](Len(food) <= FOOD_POINTS)
    /\ [](pc \in {"check"} \cup Checked => Len(food) = FOOD_POINTS)
    /\ [][ImmediateRefillStep]_vars

\* C12 witness: the head ate a piece of a full food set and the refill step
\* put the missing piece back.
C12_Witness ==
    pc = "check" /\ ate /\ start.count = FOOD_POINTS /\ Len(food) = FOOD_POINTS

\* The cells of s are pairwise distinct.
Distinct(s) == Cardinality({s[k] : k \in 1..Len(s)}) = Len(s)

\* The only duplication in s is the head equal to exactly one other cell.
HeadIsOnlyDuplicate(s) ==
    /\ Distinct(SubSeq(s, 1, Len(s) - 1))
    /\ Cardinality({k \in 1..(Len(s) - 1) : s[k] = s[Len(s)]}) = 1

\* C13 as stated: after every reset and at every tick boundary that stays
\* Running all snake cells are pairwise distinct; the only duplication
\* reachable is the head equal to one other cell, and it exists only from
\* extend to the terminal check of a tick that goes to Lost (the ticks whose
\* new head landed on a cell other than the old tail, hitIdx >= 2).
C13_Original ==
    LET duplicate == ~Distinct(snake)
    IN  /\ pc \in {"loop", "blink", "win"} => ~duplicate
        /\ duplicate =>
               /\ HeadIsOnlyDuplicate(snake)
               /\ pc \in MidMove \cup {"lose"}
               /\ hitIdx >= 2

\* C13 amended: all snake cells are pairwise distinct after every reset and at
\* every tick boundary that stays Running; the only duplication reachable is
\* the head equal to exactly one other cell; it exists from extend to the reset
\* of a tick that goes to Lost, and also between extend and cut of a tick whose
\* new head landed on the old tail cell, which cut removes, so that this tick
\* stays Running.
C13_Duplicates ==
    [](LET duplicate == ~Distinct(snake)
       IN  /\ pc \in {"loop", "blink", "win"} => ~duplicate
           /\ duplicate => HeadIsOnlyDuplicate(snake)
           /\ pc = "eat" => (duplicate <=> hitIdx >= 1)
           /\ pc \in {"refill", "check", "lose"} => (duplicate <=> hitIdx >= 2))

\* C13 witness: the head stands on a body cell at the terminal check.
C13_Witness == pc = "check" /\ ~Distinct(snake) /\ hitIdx >= 2

\* The grid cells that hold neither a snake cell nor a piece of food.
FreeCells(s, f) ==
    {p \in Cells : ~isOccupied(s, p) /\ ~foodOccupied(f, p)}

\* C14: whenever the refill step calls placeFood(snake, n), at least n grid
\* cells are free of snake and food, so the sampling loop of placeFood can
\* accept n cells and the call has an outcome that ends it.
C14_RoomForFood ==
    []((pc = "refill" /\ refillCount(food, refill) > 0) =>
          /\ Cardinality(FreeCells(snake, food)) >= refillCount(food, refill)
          /\ placeFood(food, snake, refillCount(food, refill)) # {})

\* C14 witness: placeFood is called with the snake at its greatest length.
C14_Witness ==
    /\ pc = "refill"
    /\ refillCount(food, refill) > 0
    /\ Len(snake) = MAX_SNAKE_LENGTH
    /\ Cardinality(FreeCells(snake, food)) < ROWS * COLUMNS - MAX_SNAKE_LENGTH

\* C15: at the terminal check of a tick checkSelfCollision() and
\* getLength() == maxLength never hold together, so the order of the two
\* tests never decides an outcome.
C15_ExclusiveTerminals ==
    [](pc = "check" => ~(checkSelfCollision(snake) /\ winCondition(snake)))

\* C15 witness: a terminal check at which the self-collision test is true.
C15_Witness ==
    pc = "check" /\ checkSelfCollision(snake) /\ ~winCondition(snake)

\* The steps of a tick on the snake: extend appends the new head behind the
\* old cells; without a meal cut drops index 0 and moves every other cell
\* down by one index in the same order; nothing else in a tick that stays
\* Running changes the snake.
TranslateStep ==
    /\ pc = "loop" =>
           /\ Len(snake') = Len(snake) + 1
           /\ SubSeq(snake', 1, Len(snake)) = snake
    /\ (pc = "eat" /\ ~ate') =>
           /\ Len(snake') = Len(snake) - 1
           /\ \A k \in 1..Len(snake') : snake'[k] = snake[k + 1]
    /\ (pc \in {"refill", "check", "blink"} /\ ~ate) => snake' = snake
    /\ (pc' \in {"refill", "check"} /\ ~ate') => Len(snake') = start'.len

\* C16: in every tick whose new head does not land on food the snake
\* translates without growing: the length after the tick is the length before
\* it, and the new sequence is the old one without index 0, the other cells
\* one index down in the same order, with the new head as the last cell; cut
\* alone removes only index 0 and decrements the length by 1.
C16_Translate == [][TranslateStep]_vars

\* C16 witness: a tick without a meal has cut a snake of three or more cells.
C16_Witness ==
    pc = "refill" /\ ~ate /\ Len(snake) >= 3 /\ Len(snake) = start.len

\* The refill step under the LazyBatch strategy: placeFood adds cells only to
\* an empty food set, and then the whole batch; a set of 1 to FOOD_POINTS
\* pieces is left as it is.
LazyRefillStep ==
    pc = "refill" =>
        /\ (food' # food) => Len(food) = 0
        /\ Len(food) = 0 => Len(food') = FOOD_POINTS
        /\ Len(food) \in 1..FOOD_POINTS => food' = food

\* C17: under the LazyBatch strategy placeFood is called only when the food
\* count after the eat step is zero, then for the full FOOD_POINTS; a tick
\* whose count after the eat step is between 1 and FOOD_POINTS adds no food;
\* the count never exceeds FOOD_POINTS.
C17_LazyRefill ==
    /\ [](Len(food) <= FOOD_POINTS)
    /\ [][LazyRefillStep]_vars

\* C17 witness: the head ate one piece of a full set and the tick went on
\* without a refill.
C17_Witness ==
    /\ ~refill
    /\ pc = "check"
    /\ ate
    /\ start.count = FOOD_POINTS
    /\ Len(food) = FOOD_POINTS - 1

\* The lose test of loop() on the snake it finds: it reports a collision
\* exactly when the head equals a cell of a lower index, and the call leaves
\* the snake, the food, the canvas and the heading as they were.
CollisionStep ==
    pc = "check" =>
        /\ (\E k \in 1..(Len(snake) - 1) : snake[k] = snake[Len(snake)])
               => pc' = "lose"
        /\ (\A k \in 1..(Len(snake) - 1) : snake[k] # snake[Len(snake)])
               => pc' # "lose"
        /\ UNCHANGED <<snake, food, m_display, leds, direct, buzzer>>

\* C18: for every snake state checkSelfCollision() is true if and only if the
\* head (the last cell) equals at least one cell of index < length-1, and the
\* call changes no state.
C18_CollisionExact ==
    /\ [](checkSelfCollision(snake) <=> HeadOnBody(snake))
    /\ [][CollisionStep]_vars

\* C18 witness: a snake that is no path, with its head put on the cell of
\* index 0 and two other cells equal, was reported as a collision.
C18_Witness ==
    /\ pc = "lose"
    /\ Len(snake) = InjectLength
    /\ snake[1] = snake[Len(snake)]
    /\ snake[2] = snake[3]

\* The blink of a tick that stays Running: 2 x BLINK_FREQUENCY writes of the
\* head pixel, off first and on last, each shown by the flush that follows
\* it; no other pixel, no snake cell, no food cell and not the heading
\* change; the head pixel is on when the tick ends.
BlinkStep ==
    pc = "blink" =>
        /\ Len(blinked') = 2 * BLINK_FREQUENCY
        /\ \A k \in 1..Len(blinked') :
               /\ blinked'[k].value = (k % 2 = 0)
               /\ blinked'[k].shown = blinked'[k].value
        /\ \A p \in Cells \ {getHead(snake)} :
               pixelOn(m_display', p) = pixelOn(m_display, p)
        /\ pixelOn(m_display', getHead(snake))
        /\ leds' = m_display'
        /\ UNCHANGED <<snake, food, direct>>
        /\ pc' = "loop"

\* C19: in every tick that stays Running the head blink makes exactly
\* 2 x BLINK_FREQUENCY pixel writes, each followed by a flush, alternating
\* off and on from off to on; it changes no pixel but the head's, leaves
\* snake, food and heading unchanged and leaves the head pixel on.
C19_HeadBlink == [][BlinkStep]_vars

\* C19 witness: a tick ended with a blink; the LEDs show the head and food.
C19_Witness ==
    /\ pc = "loop"
    /\ Len(blinked) = 2 * BLINK_FREQUENCY
    /\ pixelOn(leds, getHead(snake))
    /\ \E i \in 1..Len(food) : pixelOn(leds, food[i])

\* C20: the buzzer is raised as eat feedback in a tick only if the new head
\* of that tick ate food, and it is low again before the next tick begins on
\* every path out of the tick: after the blink when the game stays Running,
\* after the terminal sequence when the tick ends in Lost or Won.
C20_EatSignal ==
    /\ [](buzzer => (ate /\ pc \in {"refill", "check", "win", "blink"}))
    /\ [](pc = "loop" => ~buzzer)

\* C20 witness: the tick that ate its way to maxLength enters the Won
\* sequence with the buzzer still high.
C20_Witness == pc = "win" /\ buzzer /\ ate /\ hitIdx = 0

\* C21: at the flush that commits a tick (before the terminal checks) a pixel
\* of the canvas is on if and only if its cell holds a snake cell or a piece
\* of food, and the LEDs show that canvas.
C21_CanvasConsistent ==
    pc = "check" =>
        /\ leds = m_display
        /\ \A p \in Cells :
               pixelOn(m_display, p) <=>
                   (isOccupied(snake, p) \/ foodOccupied(food, p))

\* The four unit vectors of the grid.
UnitVectors == {<<1, 0>>, <<-1, 0>>, <<0, 1>>, <<0, -1>>}

\* Cell q is cell p plus a unit vector, taken modulo (columns, rows).
TorusNeighbour(p, q) ==
    \E v \in UnitVectors :
        q = <<(p[1] + v[1]) % COLUMNS, (p[2] + v[2]) % ROWS>>

\* C22: in every reachable state the snake is a connected path on the torus:
\* every cell but the tail is its predecessor plus one of the four unit
\* vectors, taken modulo (columns, rows); after reset, extend and cut.
C22_ConnectedPath ==
    \A i \in 1..(Len(snake) - 1) : TorusNeighbour(snake[i], snake[i + 1])

\* C23: with initLength < maxLength the snake length at the start of every
\* tick is in [initLength, maxLength-1]; so the length never reaches
\* maxLength+1 (extend never fills the spare slot of the array) and a tick
\* goes to Won only if its head ate food.
C23_StartLength ==
    [](/\ INIT_SNAKE_LENGTH < MAX_SNAKE_LENGTH
       /\ pc = "loop" =>
              (Len(snake) >= INIT_SNAKE_LENGTH /\ Len(snake) <= MAX_SNAKE_LENGTH - 1)
       /\ Len(snake) <= MAX_SNAKE_LENGTH
       /\ pc = "win" => ate)

\* C23 witness: a tick that began with maxLength-1 cells ate and stands with
\* maxLength cells before the terminal checks.
C23_Witness ==
    /\ pc = "check"
    /\ start.len = MAX_SNAKE_LENGTH - 1
    /\ ate
    /\ Len(snake) = MAX_SNAKE_LENGTH

====
